---- MODULE Spec2Model ----
(***************************************************************************)
(* Model of package policy (policy/policy.go): helper and FrameworkOp.     *)
(*                                                                         *)
(* Paths are sequences of path components, file names are strings, file    *)
(* contents are sequences of bytes.  Every system call of helper is one    *)
(* action; each may succeed or fail, as the operating system decides.      *)
(***************************************************************************)
EXTENDS Integers, Sequences, FiniteSets, TLC

\* ------------------------------------------------------------------ bounds

\* policyOp is a uint: the operation values considered are 0..MaxOp.
MaxOp == 2

\* ------------------------------------------------------- program constants

\* var secbase = "/var/lib/snappy"
secbase == <<"var", "lib", "snappy">>

\* const Install policyOp = iota
Install == 0

\* const Remove
Remove == 1

Ops == 0..MaxOp

\* The two range loops of FrameworkOp, flattened in iteration order.
Combos ==
  << <<"apparmor", "policygroups">>, <<"apparmor", "templates">>,
     <<"seccomp", "policygroups">>, <<"seccomp", "templates">> >>

\* ------------------------------------------------------------ pure helpers

\* filepath.Join on component lists.
Join(a, b) == a \o b

\* filepath.Base: the last component of a path.
Base(path) == path[Len(path)]

\* filepath.Dir: everything but the last component.
Dir(path) == SubSeq(path, 1, Len(path) - 1)

\* policyOp.String
OpString(o) ==
  CASE o = Remove -> "Remove"
    [] o = Install -> "Install"
    [] OTHER -> "policyOp(" \o ToString(o) \o ")"

\* pol := filepath.Join(instPath, "meta", "framework-policy")
Pol(instPath) == Join(instPath, <<"meta", "framework-policy">>)

\* First argument of the helper call: filepath.Join(pol, i, j, "*").
GlobOf(instPath, c) == Join(Join(Pol(instPath), Combos[c]), <<"*">>)

\* Second argument of the helper call: filepath.Join(secbase, i, j).
TargetDirOf(c) == Join(secbase, Combos[c])

\* The prefix without its separator.
SuffixOfBare(name) == name

\* Third argument of the helper call: pkgName + "_".
SuffixOf(name) == name \o "_"

\* The target named after the source alone.
TargetFileBare(targetDir, suffix, file) == Join(targetDir, <<Base(file)>>)

\* targetFile := filepath.Join(targetDir, suffix+filepath.Base(file))
TargetFile(targetDir, suffix, file) == Join(targetDir, <<suffix \o Base(file)>>)

\* An os.MkdirAll that makes nothing.
MkdirChainNone(targetDir) == <<>>

\* An os.MkdirAll that makes the ancestors and leaves out the directory itself.
MkdirChainParents(targetDir) ==
  [n \in 1..(Len(targetDir) - Len(secbase)) |->
     SubSeq(targetDir, 1, Len(secbase) + n - 1)]

\* The directories os.MkdirAll(targetDir) makes, outermost first: the shared
\* root, the category directory and the target directory itself.
MkdirChain(targetDir) ==
  [n \in 1..(Len(targetDir) - Len(secbase) + 1) |->
     SubSeq(targetDir, 1, Len(secbase) + n - 1)]

Range(s) == {s[n] : n \in 1..Len(s)}

\* --------------------------------------------------------------- the inputs

\* Package names handed to FrameworkOp.
Pkgs == {"a", "a_b"}

\* Where each package is unpacked (the instPath argument).
InstPath(name) == <<"apps", name>>

\* Base names a package may ship, in the lexical order filepath.Glob returns.
NameOrder == <<"b_f", "d", "f">>

Nil == [kind |-> "nil", path |-> <<>>, op |-> ""]

\* fmt.Errorf of helper, by format string.
Errorf(kind, path, o) == [kind |-> kind, path |-> path, op |-> o]

\* Entries of a source tree: their own type, their bytes and, for a symbolic
\* link, the type of what it points to (here always a regular file).
Reg(data) == [kind |-> "reg", data |-> data, to |-> ""]
NonReg(kind) ==
  [kind |-> kind, data |-> <<>>, to |-> IF kind = "symlink" THEN "reg" ELSE ""]

\* One policy directory of a package: names -> entries.
PolicyDir(instPath, c, entries) ==
  [p \in {Join(Join(Pol(instPath), Combos[c]), <<n>>) : n \in DOMAIN entries}
     |-> entries[Base(p)]]

\* Source trees of package "a".
LayoutGood ==
  PolicyDir(InstPath("a"), 1, [n \in {"b_f", "f"} |->
                                 IF n = "b_f" THEN Reg(<<1>>) ELSE Reg(<<3, 4>>)])

LayoutBad(kind) ==
  PolicyDir(InstPath("a"), 1, [n \in {"f"} |-> Reg(<<3, 4>>)])
  @@ PolicyDir(InstPath("a"), 2, [n \in {"b_f", "d", "f"} |->
                                    CASE n = "b_f" -> Reg(<<1>>)
                                      [] n = "d" -> NonReg(kind)
                                      [] n = "f" -> Reg(<<3, 4>>)])

LayoutEmpty == [p \in {} |-> Reg(<<>>)]

\* Source tree of package "a_b".
LayoutOther == PolicyDir(InstPath("a_b"), 1, [n \in {"f"} |-> Reg(<<2, 5>>)])

SrcTrees ==
  {l @@ LayoutOther :
     l \in {LayoutGood, LayoutBad("dir"), LayoutBad("symlink"), LayoutEmpty}}

\* filepath.Glob(glob) for a pattern ending in "*": the entries of the
\* directory, sorted by name.
Glob(pattern, tree) ==
  LET names == SelectSeq(NameOrder,
                 LAMBDA n : Join(Dir(pattern), <<n>>) \in DOMAIN tree)
  IN [n \in 1..Len(names) |-> Join(Dir(pattern), <<names[n]>>)]

\* ------------------------------------------------------------------- state

Proc == {1, 2}

VARIABLES
  src,       \* the packages' unpacked trees: path -> [kind, data]
  dirs,      \* directories that exist at or below secbase
  disk,      \* regular files below secbase: path -> [data, synced, by]
  pc,        \* per invocation: where it stands
  op,        \* argument op
  pkgName,   \* argument pkgName
  ij,        \* index into Combos of the running helper call
  files,     \* helper's files (the glob result)
  nfile,     \* position of the range loop in files
  defers,    \* helper's deferred closes, last registered first
  scopeErr,  \* the err variables of the Install case, one per iteration
  err,       \* helper's result err, then FrameworkOp's
  pre,       \* the shared tree when the running call started
  faulted,   \* a system call of the running call failed for an outside reason
  last,      \* the call completed last, if it was an Install or a Remove
             \* that returned nil; names: the files there were before it
  opened,    \* the handles the running helper call has opened
  closes     \* the handles it has closed, in the order of the Close calls

vars == <<src, dirs, disk, pc, op, pkgName, ij, files, nfile, defers,
          scopeErr, err, pre, faulted, last, opened, closes>>

fsVars == <<dirs, disk>>
argVars == <<op, pkgName>>
hVars == <<opened, closes>>

NoCall == [op |-> Install, pkgName |-> "", names |-> {}]
NoTree == [dirs |-> {}, disk |-> <<>>]

Init ==
  /\ src \in SrcTrees
  /\ dirs = {}
  /\ disk = <<>>
  /\ pc = [p \in Proc |-> "idle"]
  /\ op = [p \in Proc |-> Install]
  /\ pkgName = [p \in Proc |-> ""]
  /\ ij = [p \in Proc |-> 1]
  /\ files = [p \in Proc |-> <<>>]
  /\ nfile = [p \in Proc |-> 1]
  /\ defers = [p \in Proc |-> <<>>]
  /\ scopeErr = [p \in Proc |-> <<>>]
  /\ err = [p \in Proc |-> Nil]
  /\ pre = [p \in Proc |-> NoTree]
  /\ faulted = [p \in Proc |-> FALSE]
  /\ last = NoCall
  /\ opened = [p \in Proc |-> {}]
  /\ closes = [p \in Proc |-> <<>>]

\* The arguments of the running helper call.
glob(p) == GlobOf(InstPath(pkgName[p]), ij[p])
targetDir(p) == TargetDirOf(ij[p])
suffix(p) == SuffixOf(pkgName[p])
file(p) == files[p][nfile[p]]
targetFile(p) == TargetFile(targetDir(p), suffix(p), file(p))

\* ----------------------------------------------------------------- actions

\* A return statement of helper: the result is set, then the deferred
\* closures run.
ReturnFrom(p, e) ==
  /\ err' = [err EXCEPT ![p] = e]
  /\ pc' = [pc EXCEPT ![p] = "unwind"]

\* The end of one iteration of the range loop.
NextFile(p) ==
  /\ nfile' = [nfile EXCEPT ![p] = @ + 1]
  /\ pc' = [pc EXCEPT ![p] = "range"]

Fault(p) == faulted' = [faulted EXCEPT ![p] = TRUE]

\* FrameworkOp(op, pkgName, instPath) is called.
Call(p, o, name) ==
  /\ pc[p] = "idle"
  /\ op' = [op EXCEPT ![p] = o]
  /\ pkgName' = [pkgName EXCEPT ![p] = name]
  /\ ij' = [ij EXCEPT ![p] = 1]
  /\ err' = [err EXCEPT ![p] = Nil]
  /\ pre' = [pre EXCEPT ![p] = [dirs |-> dirs, disk |-> disk]]
  /\ pc' = [pc EXCEPT ![p] = "mkdir"]
  /\ UNCHANGED <<src, fsVars, files, nfile, defers, hVars, scopeErr, faulted, last>>

\* if err = os.MkdirAll(targetDir, 0755); err != nil { return ... }
MkdirAllOk(p) ==
  /\ pc[p] = "mkdir"
  /\ dirs' = dirs \cup Range(MkdirChain(targetDir(p)))
  /\ pc' = [pc EXCEPT ![p] = "glob"]
  /\ UNCHANGED <<src, disk, argVars, ij, files, nfile, defers, hVars, scopeErr, err,
                 pre, faulted, last>>

\* os.MkdirAll fails after making none or some of the missing ancestors.
MkdirAllFail(p) ==
  /\ pc[p] = "mkdir"
  /\ \E made \in 0..(Len(MkdirChain(targetDir(p))) - 1) :
       dirs' = dirs \cup Range(SubSeq(MkdirChain(targetDir(p)), 1, made))
  /\ ReturnFrom(p, Errorf("unable to make directory", targetDir(p), ""))
  /\ Fault(p)
  /\ UNCHANGED <<src, disk, argVars, ij, files, nfile, defers, hVars, scopeErr, pre,
                 last>>

\* files, err := filepath.Glob(glob); the patterns FrameworkOp builds are
\* well formed, so err is nil.
DoGlob(p) ==
  /\ pc[p] = "glob"
  /\ files' = [files EXCEPT ![p] = Glob(glob(p), src)]
  /\ nfile' = [nfile EXCEPT ![p] = 1]
  /\ pc' = [pc EXCEPT ![p] = "range"]
  /\ UNCHANGED <<src, fsVars, argVars, ij, defers, hVars, scopeErr, err, pre, faulted,
                 last>>

\* A helper that takes a glob without matches for an error.
RangeDoneOrNoMatch(p) ==
  /\ pc[p] = "range"
  /\ nfile[p] > Len(files[p])
  /\ ReturnFrom(p, IF files[p] = <<>>
                     THEN Errorf("no match", glob(p), OpString(op[p]))
                     ELSE Nil)
  /\ UNCHANGED <<src, fsVars, argVars, ij, files, nfile, defers, hVars,
                 scopeErr, pre, faulted, last>>

\* The range loop is exhausted: return nil.
RangeDone(p) ==
  /\ pc[p] = "range"
  /\ nfile[p] > Len(files[p])
  /\ ReturnFrom(p, Nil)
  /\ UNCHANGED <<src, fsVars, argVars, ij, files, nfile, defers, hVars, scopeErr, pre,
                 faulted, last>>

\* The loop body without the regular-file check.
AfterLstatUnchecked(o, s, f) ==
  CASE o = Remove -> [pc |-> "remove", err |-> Nil]
    [] o = Install -> [pc |-> "open", err |-> Nil]
    [] OTHER -> [pc |-> "unwind",
                 err |-> Errorf("unknown operation", <<>>, OpString(o))]

\* What the loop body does once os.Lstat(file) has answered with mode s: the
\* regular-file check, then the dispatch of switch op.  The result is where
\* helper goes next and, when it returns, the error it returns.
AfterLstat(o, s, f) ==
  IF s # "reg"
    THEN [pc |-> "unwind",
          err |-> Errorf("not a regular file", f, OpString(o))]
    ELSE CASE o = Remove -> [pc |-> "remove", err |-> Nil]
           [] o = Install -> [pc |-> "open", err |-> Nil]
           [] OTHER -> [pc |-> "unwind",
                        err |-> Errorf("unknown operation", <<>>, OpString(o))]

\* os.Stat: the type of what the path leads to, links followed.
StatFollowed(tree, path) ==
  IF tree[path].kind = "symlink" THEN tree[path].to ELSE tree[path].kind

\* os.Lstat: the type of the entry itself, a link not followed.
Lstat(tree, path) == tree[path].kind

\* s, err := os.Lstat(file) succeeds.
LstatOk(p) ==
  /\ pc[p] = "range"
  /\ nfile[p] <= Len(files[p])
  /\ LET r == AfterLstat(op[p], Lstat(src, file(p)), file(p))
     IN /\ pc' = [pc EXCEPT ![p] = r.pc]
        /\ err' = [err EXCEPT ![p] = r.err]
  /\ UNCHANGED <<src, fsVars, argVars, ij, files, nfile, defers, hVars, scopeErr, pre,
                 faulted, last>>

\* os.Lstat fails.
LstatFail(p) ==
  /\ pc[p] = "range"
  /\ nfile[p] <= Len(files[p])
  /\ ReturnFrom(p, Errorf("unable to stat", file(p), ""))
  /\ Fault(p)
  /\ UNCHANGED <<src, fsVars, argVars, ij, files, nfile, defers, hVars, scopeErr, pre,
                 last>>

\* os.Remove that takes a missing file for a removed one.
CanRemoveMissing(d, t) == TRUE

\* Whether os.Remove(t) can return nil: only when t exists.
CanRemove(d, t) == t \in DOMAIN d

\* os.Remove that returns nil and leaves the file.
UnlinkedNothing(d, t) == d

\* The files left once os.Remove(t) has returned nil.
Unlinked(d, t) == [x \in DOMAIN d \ {t} |-> d[x]]

\* case Remove: os.Remove(targetFile) succeeds.
RemoveOk(p) ==
  /\ pc[p] = "remove"
  /\ CanRemove(disk, targetFile(p))
  /\ disk' = Unlinked(disk, targetFile(p))
  /\ NextFile(p)
  /\ UNCHANGED <<src, dirs, argVars, ij, files, defers, hVars, scopeErr, err, pre,
                 faulted, last>>

\* os.Remove fails: always when the target does not exist, and whenever the
\* system refuses.
RemoveFail(p) ==
  /\ pc[p] = "remove"
  /\ ReturnFrom(p, Errorf("unable to remove", targetFile(p), ""))
  /\ faulted' = [faulted EXCEPT ![p] = @ \/ targetFile(p) \in DOMAIN disk]
  /\ UNCHANGED <<src, fsVars, argVars, ij, files, nfile, defers, hVars, scopeErr, pre,
                 last>>

\* A defer statement that is not there.
DeferredNot(stack, d) == stack

\* defer: the deferred calls of helper run last registered, first run.
Deferred(stack, d) == <<d>> \o stack

\* case Install: fin, err := os.Open(file) succeeds; the close of fin is
\* deferred.  The err declared here belongs to the case clause.
OpenOk(p) ==
  /\ pc[p] = "open"
  /\ scopeErr' = [scopeErr EXCEPT ![p] = Append(@, Nil)]
  /\ LET fin == [h |-> "fin", path |-> file(p), scope |-> Len(scopeErr[p]) + 1]
     IN /\ defers' = [defers EXCEPT ![p] = Deferred(@, fin)]
        /\ opened' = [opened EXCEPT ![p] = @ \cup {fin}]
  /\ UNCHANGED closes
  /\ pc' = [pc EXCEPT ![p] = "create"]
  /\ UNCHANGED <<src, fsVars, argVars, ij, files, nfile, err, pre, faulted,
                 last>>

OpenFail(p) ==
  /\ pc[p] = "open"
  /\ scopeErr' = [scopeErr EXCEPT ![p] =
                    Append(@, Errorf("open", file(p), ""))]
  /\ ReturnFrom(p, Errorf("unable to read", file(p), ""))
  /\ Fault(p)
  /\ UNCHANGED <<src, fsVars, argVars, ij, files, nfile, defers, hVars, pre, last>>

\* Whether os.Create(t) can return nil: only in a directory that exists.
CanCreate(ds, t) == Dir(t) \in ds

\* os.Create that opens an existing file without truncating it.
CreatedKeep(d, t, name) ==
  IF t \in DOMAIN d
    THEN [d EXCEPT ![t] = [data |-> @.data, synced |-> FALSE, by |-> name]]
    ELSE (t :> [data |-> <<>>, synced |-> FALSE, by |-> name]) @@ d

\* The files once os.Create(t) has returned nil: t exists and is empty
\* (O_CREATE|O_TRUNC), whatever it held.
Created(d, t, name) ==
  (t :> [data |-> <<>>, synced |-> FALSE, by |-> name]) @@ d

\* A file that held `old` once `bytes` have been written from its start.
Written(old, bytes) == bytes \o SubSeq(old, Len(bytes) + 1, Len(old))

\* fout, err := os.Create(targetFile) succeeds: the target exists and is
\* empty; the close of fout is deferred.
CreateOk(p) ==
  /\ pc[p] = "create"
  /\ CanCreate(dirs, targetFile(p))
  /\ disk' = Created(disk, targetFile(p), pkgName[p])
  /\ LET fout == [h |-> "fout", path |-> targetFile(p),
                  scope |-> Len(scopeErr[p])]
     IN /\ defers' = [defers EXCEPT ![p] = Deferred(@, fout)]
        /\ opened' = [opened EXCEPT ![p] = @ \cup {fout}]
  /\ UNCHANGED closes
  /\ pc' = [pc EXCEPT ![p] = "copy"]
  /\ UNCHANGED <<src, dirs, argVars, ij, files, nfile, scopeErr, err, pre,
                 faulted, last>>

CreateFail(p) ==
  /\ pc[p] = "create"
  /\ scopeErr' = [scopeErr EXCEPT ![p][Len(scopeErr[p])] =
                    Errorf("create", targetFile(p), "")]
  /\ ReturnFrom(p, Errorf("unable to create", targetFile(p), ""))
  /\ faulted' = [faulted EXCEPT ![p] = @ \/ CanCreate(dirs, targetFile(p))]
  /\ UNCHANGED <<src, fsVars, argVars, ij, files, nfile, defers, hVars, pre, last>>

\* io.Copy that stops one byte short.
CopiedShort(data) == SubSeq(data, 1, Len(data) - 1)

\* The bytes io.Copy(fout, fin) has written when it returns nil.
Copied(data) == data

\* _, err = io.Copy(fout, fin) succeeds.
CopyOk(p) ==
  /\ pc[p] = "copy"
  /\ disk' = [disk EXCEPT ![targetFile(p)].data =
                Written(@, Copied(src[file(p)].data))]
  /\ pc' = [pc EXCEPT ![p] = "sync"]
  /\ UNCHANGED <<src, dirs, argVars, ij, files, nfile, defers, hVars, scopeErr, err,
                 pre, faulted, last>>

\* io.Copy fails midway: some prefix of the source has been written.
CopyFail(p) ==
  /\ pc[p] = "copy"
  /\ \E n \in 0..Len(src[file(p)].data) :
       disk' = [disk EXCEPT ![targetFile(p)].data =
                  Written(@, SubSeq(src[file(p)].data, 1, n))]
  /\ scopeErr' = [scopeErr EXCEPT ![p][Len(scopeErr[p])] = Errorf("copy", file(p), "")]
  /\ ReturnFrom(p, Errorf("unable to copy", file(p), ""))
  /\ Fault(p)
  /\ UNCHANGED <<src, dirs, argVars, ij, files, nfile, defers, hVars, pre, last>>

\* A Sync that flushes nothing.
SyncedNot(f) == f

\* The state of a target once fout.Sync() has returned nil.
Synced(f) == [f EXCEPT !.synced = TRUE]

\* err = fout.Sync() succeeds; the iteration ends.
SyncOk(p) ==
  /\ pc[p] = "sync"
  /\ disk' = [disk EXCEPT ![targetFile(p)] = Synced(@)]
  /\ NextFile(p)
  /\ UNCHANGED <<src, dirs, argVars, ij, files, defers, hVars, scopeErr, err, pre,
                 faulted, last>>

SyncFail(p) ==
  /\ pc[p] = "sync"
  /\ scopeErr' = [scopeErr EXCEPT ![p][Len(scopeErr[p])] =
                    Errorf("sync", targetFile(p), "")]
  /\ ReturnFrom(p, Errorf("when syncing", targetFile(p), ""))
  /\ Fault(p)
  /\ UNCHANGED <<src, fsVars, argVars, ij, files, nfile, defers, hVars, pre, last>>

\* A deferred closure whose Close returned nil.
CloseOk(p) ==
  /\ pc[p] = "unwind"
  /\ defers[p] # <<>>
  /\ defers' = [defers EXCEPT ![p] = Tail(@)]
  /\ closes' = [closes EXCEPT ![p] = Append(@, Head(defers[p]))]
  /\ UNCHANGED <<src, fsVars, pc, argVars, ij, files, nfile, scopeErr, err,
                 pre, faulted, last, opened>>

\* What a deferred closure does with cerr != nil: `err` in its body is the
\* err of the case clause it was written in (fin, err := os.Open(file)
\* declares a new one), not helper's result.
OnCloseError(p, d, cerr) ==
  /\ scopeErr' = [scopeErr EXCEPT ![p][d.scope] =
                    IF @ = Nil THEN cerr ELSE @]
  /\ UNCHANGED err

\* A deferred closure whose Close returned an error.
CloseFail(p) ==
  /\ pc[p] = "unwind"
  /\ defers[p] # <<>>
  /\ OnCloseError(p, Head(defers[p]),
                  Errorf("when closing", Head(defers[p]).path, ""))
  /\ defers' = [defers EXCEPT ![p] = Tail(@)]
  /\ closes' = [closes EXCEPT ![p] = Append(@, Head(defers[p]))]
  /\ Fault(p)
  /\ UNCHANGED <<src, fsVars, pc, argVars, ij, files, nfile, pre, last,
                 opened>>

\* helper has returned to FrameworkOp.
HelperReturn(p) ==
  /\ pc[p] = "unwind"
  /\ defers[p] = <<>>
  /\ pc' = [pc EXCEPT ![p] = "returned"]
  /\ UNCHANGED <<src, fsVars, argVars, ij, files, nfile, defers, hVars, scopeErr, err,
                 pre, faulted, last>>

\* FrameworkOp going on to the next combination whatever helper returned.
AfterHelperGoOn(e, c) ==
  IF c = Len(Combos) THEN [pc |-> "done", ij |-> c]
                     ELSE [pc |-> "mkdir", ij |-> c + 1]

\* What FrameworkOp does with the result of helper for combination c:
\* if err = helper(...); err != nil { return err }, else the next combination,
\* and return nil after the last.
AfterHelper(e, c) ==
  IF e # Nil \/ c = Len(Combos) THEN [pc |-> "done", ij |-> c]
                                ELSE [pc |-> "mkdir", ij |-> c + 1]

FrameworkOpStep(p) ==
  /\ pc[p] = "returned"
  /\ pc' = [pc EXCEPT ![p] = AfterHelper(err[p], ij[p]).pc]
  /\ ij' = [ij EXCEPT ![p] = AfterHelper(err[p], ij[p]).ij]
  /\ files' = [files EXCEPT ![p] = <<>>]
  /\ nfile' = [nfile EXCEPT ![p] = 1]
  /\ scopeErr' = [scopeErr EXCEPT ![p] = <<>>]
  /\ opened' = [opened EXCEPT ![p] = {}]
  /\ closes' = [closes EXCEPT ![p] = <<>>]
  /\ UNCHANGED <<src, fsVars, argVars, defers, err, pre, faulted, last>>

\* FrameworkOp has returned err to its caller.
Return(p) ==
  /\ pc[p] = "done"
  /\ last' = IF err[p] = Nil /\ op[p] \in {Install, Remove}
               THEN [op |-> op[p], pkgName |-> pkgName[p],
                     names |-> IF op[p] = Install THEN DOMAIN pre[p].disk
                                                  ELSE {}]
               ELSE NoCall
  /\ pc' = [pc EXCEPT ![p] = "idle"]
  /\ op' = [op EXCEPT ![p] = Install]
  /\ pkgName' = [pkgName EXCEPT ![p] = ""]
  /\ ij' = [ij EXCEPT ![p] = 1]
  /\ err' = [err EXCEPT ![p] = Nil]
  /\ pre' = [pre EXCEPT ![p] = NoTree]
  /\ faulted' = [faulted EXCEPT ![p] = FALSE]
  /\ UNCHANGED <<src, fsVars, files, nfile, defers, hVars, scopeErr>>

\* The package manager runs one policy operation at a time.
SeqProc == {1}

Next ==
  \E p \in SeqProc :
    \/ \E o \in Ops, name \in Pkgs : Call(p, o, name)
    \/ MkdirAllOk(p)
    \/ MkdirAllFail(p)
    \/ DoGlob(p)
    \/ RangeDone(p)
    \/ LstatOk(p)
    \/ LstatFail(p)
    \/ RemoveOk(p)
    \/ RemoveFail(p)
    \/ OpenOk(p)
    \/ OpenFail(p)
    \/ CreateOk(p)
    \/ CreateFail(p)
    \/ CopyOk(p)
    \/ CopyFail(p)
    \/ SyncOk(p)
    \/ SyncFail(p)
    \/ CloseOk(p)
    \/ CloseFail(p)
    \/ HelperReturn(p)
    \/ FrameworkOpStep(p)
    \/ Return(p)

Spec == Init /\ [][Next]_vars

\* ------------------------------------------------------------------ claims

\* The matches of package `name` in combination c, in match order, and the
\* target FrameworkOp and helper compute for one of them.
Matches(name, c) == Glob(GlobOf(InstPath(name), c), src)
Target(name, c, f) == TargetFile(TargetDirOf(c), SuffixOf(name), f)
CombosIx == 1..Len(Combos)

\* The target t is as it was when the running call of p started.
Untouched(p, t) ==
  /\ t \in DOMAIN disk <=> t \in DOMAIN pre[p].disk
  /\ t \in DOMAIN disk => disk[t] = pre[p].disk[t]

\* The target of source f holds f's bytes and has been synced since.
Installed(t, f) ==
  /\ t \in DOMAIN disk
  /\ disk[t].data = src[f].data
  /\ disk[t].synced

\* The index of the first match of ms that is no regular file (0: none).
FirstNonRegular(ms) ==
  IF \E n \in 1..Len(ms) : src[ms[n]].kind # "reg"
    THEN CHOOSE n \in 1..Len(ms) :
           /\ src[ms[n]].kind # "reg"
           /\ \A m \in 1..(n - 1) : src[ms[m]].kind = "reg"
    ELSE 0

\* p's Remove has returned nil right after p's Install of the same package
\* returned nil.
RoundTripDone(p) ==
  /\ pc[p] = "done" /\ op[p] = Remove /\ err[p] = Nil
  /\ last.op = Install /\ last.pkgName = pkgName[p]

\* C1 as claimed: whatever the shared tree held before the Install, a
\* successful Install followed by a successful Remove of the same package
\* leaves exactly the files there were before the Install.
C1_RoundTripAnyTree ==
  \A p \in Proc : RoundTripDone(p) => DOMAIN disk = last.names

\* None of the package's target paths existed before the Install.
NoTargetBefore(p) ==
  \A c \in CombosIx : \A n \in 1..Len(Matches(pkgName[p], c)) :
    Target(pkgName[p], c, Matches(pkgName[p], c)[n]) \notin last.names

\* C1 amended: when none of the package's target paths existed before the
\* Install, a successful Install followed by a successful Remove of the same
\* package leaves exactly the files there were before the Install.
C1_RoundTrip ==
  \A p \in Proc :
    RoundTripDone(p) /\ NoTargetBefore(p) => DOMAIN disk = last.names

\* C1 witness: such a round trip of a package that ships files, over a tree
\* that held another file.
C1_Witness ==
  \E p \in Proc :
    /\ RoundTripDone(p) /\ NoTargetBefore(p)
    /\ \E c \in CombosIx : Matches(pkgName[p], c) # <<>>
    /\ last.names # {}

\* C2 as claimed: for a base name shipped by two packages A and B in the same
\* combination, the two targets differ, and a successful Install or Remove of
\* A leaves the target that B installed (B's bytes, synced) as it was.
C2_Namespacing ==
  \A p \in Proc :
    pc[p] = "done" /\ err[p] = Nil /\ op[p] \in {Install, Remove} =>
      \A B \in Pkgs \ {pkgName[p]} : \A c \in CombosIx :
        \A n \in 1..Len(Matches(B, c)) :
          LET y == Matches(B, c)[n]
              tB == Target(B, c, y)
          IN (/\ \E m \in 1..Len(Matches(pkgName[p], c)) :
                   Base(Matches(pkgName[p], c)[m]) = Base(y)
              /\ tB \in DOMAIN pre[p].disk
              /\ pre[p].disk[tB] =
                   [data |-> src[y].data, synced |-> TRUE, by |-> B])
             => /\ tB # Target(pkgName[p], c, y)
                /\ Untouched(p, tB)

\* C3 as claimed: the target an invocation computes for a match of its package
\* is the target of no match of another package, and is no file another
\* package installed.
C3_NoCollision ==
  \A p \in Proc :
    pc[p] \in {"remove", "open", "create"} =>
      /\ \A B \in Pkgs \ {pkgName[p]} :
           \A n \in 1..Len(Matches(B, ij[p])) :
             Target(B, ij[p], Matches(B, ij[p])[n]) # targetFile(p)
      /\ targetFile(p) \in DOMAIN disk => disk[targetFile(p)].by = pkgName[p]

\* C4: when Install has returned nil, every matched source file has a target
\* with the same bytes, synced after its last write.
C4_ContentSynced ==
  \A p \in Proc :
    pc[p] = "done" /\ op[p] = Install /\ err[p] = Nil =>
      \A c \in CombosIx : \A n \in 1..Len(Matches(pkgName[p], c)) :
        Installed(Target(pkgName[p], c, Matches(pkgName[p], c)[n]),
                  Matches(pkgName[p], c)[n])

\* C4 witness: a successful Install of a package with two files in one
\* directory.
C4_Witness ==
  \E p \in Proc :
    /\ pc[p] = "done" /\ op[p] = Install /\ err[p] = Nil
    /\ \E c \in CombosIx : Len(Matches(pkgName[p], c)) >= 2

\* helper has returned an error from inside its range loop.
FailedInLoop(p) ==
  /\ pc[p] = "returned"
  /\ err[p] # Nil
  /\ err[p].kind # "unable to make directory"

\* C5: when helper returns an error from its loop, the error names the match
\* the loop stands at, every match before it has been applied (copied and
\* synced, or removed), and the target of every match after it is as it was
\* before the call.
C5_FailFastInGlob ==
  \A p \in Proc :
    FailedInLoop(p) =>
      LET ms == Matches(pkgName[p], ij[p])
          t(n) == Target(pkgName[p], ij[p], ms[n])
      IN /\ files[p] = ms
         /\ nfile[p] \in 1..Len(ms)
         /\ \/ err[p].path \in {ms[nfile[p]], t(nfile[p])}
            \/ err[p].kind = "unknown operation"
         /\ \A n \in 1..(nfile[p] - 1) :
              /\ op[p] = Install => Installed(t(n), ms[n])
              /\ op[p] = Remove => t(n) \notin DOMAIN disk
              /\ op[p] \in {Install, Remove}
         /\ \A n \in (nfile[p] + 1)..Len(ms) : Untouched(p, t(n))

\* C5 witness: an Install has failed at the second of three matches, with the
\* first copied by this call and the third without a target.
C5_Witness ==
  \E p \in Proc :
    /\ FailedInLoop(p) /\ op[p] = Install
    /\ nfile[p] = 2 /\ Len(files[p]) = 3
    /\ Target(pkgName[p], ij[p], files[p][1]) \notin DOMAIN pre[p].disk
    /\ Target(pkgName[p], ij[p], files[p][1]) \in DOMAIN disk
    /\ Target(pkgName[p], ij[p], files[p][3]) \notin DOMAIN disk

\* C6: when FrameworkOp returns an error, it is at the first combination whose
\* helper call failed: the combinations before it were applied in order (their
\* directories exist), and the target directories of the combinations after it
\* and the files in them are as they were before the call.
C6_FailFastBatch ==
  \A p \in Proc :
    pc[p] = "done" /\ err[p] # Nil =>
      /\ \A c \in 1..(ij[p] - 1) : TargetDirOf(c) \in dirs
      /\ \A c \in (ij[p] + 1)..Len(Combos) :
           /\ TargetDirOf(c) \in dirs <=> TargetDirOf(c) \in pre[p].dirs
           /\ \A t \in DOMAIN disk \cup DOMAIN pre[p].disk :
                Dir(t) = TargetDirOf(c) => Untouched(p, t)

\* C6 witness: a Remove that failed in the first combination while the
\* package has a file installed in the second.
C6_Witness ==
  \E p \in Proc :
    /\ pc[p] = "done" /\ err[p] # Nil /\ op[p] = Remove /\ ij[p] = 1
    /\ \E n \in 1..Len(Matches(pkgName[p], 2)) :
         Target(pkgName[p], 2, Matches(pkgName[p], 2)[n]) \in DOMAIN disk

\* C7 as claimed: FrameworkOp with an operation that is neither Install nor
\* Remove leaves the directories and files of the shared tree as they were
\* and, no system call failing, returns the unknown-operation error naming the
\* operation.
C7_UnknownOperation ==
  \A p \in Proc :
    pc[p] = "done" /\ op[p] \notin {Install, Remove} /\ ~faulted[p] =>
      /\ err[p] = Errorf("unknown operation", <<>>, OpString(op[p]))
      /\ dirs = pre[p].dirs
      /\ disk = pre[p].disk

\* C8 as claimed: when helper has returned from an Install, (a) if its loop
\* stopped at a failing step, the result is that step's error and no close
\* error; (b) if the loop ran to its end and a deferred close failed, the
\* result is a close error.
C8_CloseFailure ==
  \A p \in Proc :
    pc[p] = "returned" /\ op[p] = Install =>
      /\ nfile[p] <= Len(files[p]) => err[p].kind \notin {"nil", "when closing"}
      /\ (/\ nfile[p] > Len(files[p])
          /\ \E n \in 1..Len(scopeErr[p]) : scopeErr[p][n].kind = "when closing")
         => err[p].kind = "when closing"

\* The first match of ms whose target was missing when the call of p
\* started (0: none).
FirstMissing(p, ms) ==
  IF \E n \in 1..Len(ms) :
       Target(pkgName[p], ij[p], ms[n]) \notin DOMAIN pre[p].disk
    THEN CHOOSE n \in 1..Len(ms) :
           /\ Target(pkgName[p], ij[p], ms[n]) \notin DOMAIN pre[p].disk
           /\ \A m \in 1..(n - 1) :
                Target(pkgName[p], ij[p], ms[m]) \in DOMAIN pre[p].disk
    ELSE 0

\* C9: a Remove whose helper call meets a matched regular file with a missing
\* target does not return nil, and returns the remove error naming that target
\* unless an earlier step of the call failed; a Remove right after a Remove of
\* the same package that returned nil fails when the package ships a file.
C9_MissingTarget ==
  \A p \in Proc :
    /\ pc[p] = "returned" /\ op[p] = Remove =>
         LET ms == Matches(pkgName[p], ij[p])
             k == FirstMissing(p, ms)
         IN /\ err[p] = Nil => k = 0
            /\ (/\ k # 0
                /\ ~faulted[p]
                /\ \A n \in 1..k : src[ms[n]].kind = "reg")
               => err[p] = Errorf("unable to remove",
                                  Target(pkgName[p], ij[p], ms[k]), "")
    /\ (/\ pc[p] = "done" /\ op[p] = Remove
        /\ last.op = Remove /\ last.pkgName = pkgName[p]
        /\ \E c \in CombosIx : Matches(pkgName[p], c) # <<>>)
       => err[p] # Nil

\* C9 witness: the second of two Removes in a row of a package that ships
\* files has failed with the remove error, no system call having failed for
\* another reason.
C9_Witness ==
  \E p \in Proc :
    /\ pc[p] = "done" /\ op[p] = Remove
    /\ last.op = Remove /\ last.pkgName = pkgName[p]
    /\ ~faulted[p]
    /\ err[p].kind = "unable to remove"

\* helper has returned from an Install whose glob matches a non-regular entry.
InstallOverNonRegular(p) ==
  /\ pc[p] = "returned" /\ op[p] = Install
  /\ err[p].kind # "unable to make directory"
  /\ FirstNonRegular(Matches(pkgName[p], ij[p])) # 0

\* C10 as claimed: such an Install, no system call failing, returns the
\* not-a-regular-file error and has copied no file of the glob.
C10_NoCopyAtAll ==
  \A p \in Proc :
    InstallOverNonRegular(p) /\ ~faulted[p] =>
      LET ms == Matches(pkgName[p], ij[p])
      IN /\ err[p].kind = "not a regular file"
         /\ \A n \in 1..Len(ms) :
              Untouched(p, Target(pkgName[p], ij[p], ms[n]))

\* C10 amended: such an Install does not return nil; the entry and the
\* matches after it are not copied; and when no system call failed, the error
\* is the not-a-regular-file error naming the first such entry and the
\* operation, and the matches before it have been copied and synced.
C10_NoCopyFromBadEntryOn ==
  \A p \in Proc :
    InstallOverNonRegular(p) =>
      LET ms == Matches(pkgName[p], ij[p])
          k == FirstNonRegular(ms)
          t(n) == Target(pkgName[p], ij[p], ms[n])
      IN /\ err[p] # Nil
         /\ \A n \in k..Len(ms) : Untouched(p, t(n))
         /\ ~faulted[p] =>
              /\ err[p] = Errorf("not a regular file", ms[k], "Install")
              /\ \A n \in 1..(k - 1) : Installed(t(n), ms[n])

\* C10 witness: an Install stopped by a non-regular entry that has a regular
\* match before it and one after it, no system call having failed.
C10_Witness ==
  \E p \in Proc :
    /\ InstallOverNonRegular(p) /\ ~faulted[p]
    /\ FirstNonRegular(Matches(pkgName[p], ij[p])) = 2
    /\ Len(Matches(pkgName[p], ij[p])) = 3

\* The files of the shared tree that lie in directory d, now or when the
\* running call of p started.
FilesIn(p, d) == {t \in DOMAIN disk \cup DOMAIN pre[p].disk : Dir(t) = d}

\* helper has returned from a call whose glob matches no path.
EmptyGlobReturned(p) ==
  /\ pc[p] = "returned"
  /\ ~ \E f \in DOMAIN src : Dir(f) = Dir(glob(p))

\* C11 as claimed: when the glob matches no path and no system call fails,
\* helper returns nil and the target directory and the files in it are as
\* they were before the call.
C11_EmptyGlobNoOp ==
  \A p \in Proc :
    EmptyGlobReturned(p) /\ ~faulted[p] =>
      /\ err[p] = Nil
      /\ targetDir(p) \in dirs <=> targetDir(p) \in pre[p].dirs
      /\ \A t \in FilesIn(p, targetDir(p)) : Untouched(p, t)

\* C11 amended: when the glob matches no path, helper opens no file and
\* leaves the files of the target directory as they were; it returns nil
\* unless os.MkdirAll failed, and when it returns nil the target directory
\* exists (it is created when missing).
C11_EmptyGlobNoFileTouched ==
  \A p \in Proc :
    EmptyGlobReturned(p) =>
      /\ \A t \in FilesIn(p, targetDir(p)) : Untouched(p, t)
      /\ opened[p] = {}
      /\ err[p] \in {Nil, Errorf("unable to make directory", targetDir(p), "")}
      /\ ~faulted[p] => err[p] = Nil
      /\ err[p] = Nil => targetDir(p) \in dirs

\* C11 witness: helper has returned nil for a glob without matches and has
\* made the target directory.
C11_Witness ==
  \E p \in Proc :
    /\ EmptyGlobReturned(p) /\ err[p] = Nil
    /\ op[p] \in {Install, Remove}
    /\ targetDir(p) \notin pre[p].dirs

\* No policy directory of the package holds an entry that is not regular.
AllRegular(name) ==
  \A c \in CombosIx : FirstNonRegular(Matches(name, c)) = 0

\* C12: helper has made the target directory and its ancestors before it
\* globs or touches a file; when os.MkdirAll fails helper returns the
\* directory error naming targetDir, having globbed nothing, opened no file
\* and changed no file of the directory; an Install that returns nil leaves
\* all target directories existing, and an Install over regular files succeeds
\* when no system call fails, also when the directories were missing.
C12_DirectoryFirst ==
  \A p \in Proc :
    /\ pc[p] \in {"glob", "range", "remove", "open", "create", "copy", "sync"}
         => \A n \in (Len(secbase) + 1)..Len(targetDir(p)) :
              SubSeq(targetDir(p), 1, n) \in dirs
    /\ (pc[p] \in {"unwind", "returned"}
        /\ err[p].kind = "unable to make directory")
         => /\ err[p] = Errorf("unable to make directory", targetDir(p), "")
            /\ files[p] = <<>>
            /\ opened[p] = {}
            /\ \A t \in FilesIn(p, targetDir(p)) : Untouched(p, t)
    /\ (pc[p] = "done" /\ op[p] = Install)
         => /\ err[p] = Nil => \A c \in CombosIx : TargetDirOf(c) \in dirs
            /\ (~faulted[p] /\ AllRegular(pkgName[p])) => err[p] = Nil

\* C12 witness: an Install that copied files into a directory that did not
\* exist has returned nil.
C12_Witness ==
  \E p \in Proc :
    /\ pc[p] = "done" /\ op[p] = Install /\ err[p] = Nil
    /\ \E c \in CombosIx :
         /\ TargetDirOf(c) \notin pre[p].dirs
         /\ Matches(pkgName[p], c) # <<>>

\* <SharedPolicyRoot>/<category>/<subcategory>/<package-name>_<basename>.
ExpectedTarget(name, c, f) ==
  <<"var", "lib", "snappy", Combos[c][1], Combos[c][2],
    name \o "_" \o f[Len(f)]>>

\* C13: whichever the operation, the target helper computes for a match is
\* <SharedPolicyRoot>/<category>/<subcategory>/<package-name>_<basename>,
\* and every file of the shared tree lies at that path for a source of the
\* package that wrote it: Remove addresses the file Install wrote.
C13_SameTarget ==
  /\ \A p \in Proc :
       pc[p] \in {"remove", "open", "create", "copy", "sync"} =>
         targetFile(p) = ExpectedTarget(pkgName[p], ij[p], file(p))
  /\ \A t \in DOMAIN disk :
       \E c \in CombosIx : \E n \in 1..Len(Matches(disk[t].by, c)) :
         t = ExpectedTarget(disk[t].by, c, Matches(disk[t].by, c)[n])

\* C13 witness: a Remove is about to remove the file an Install of the same
\* package wrote from the same source.
C13_Witness ==
  \E p \in Proc :
    /\ pc[p] = "remove" /\ op[p] = Remove
    /\ targetFile(p) \in DOMAIN disk
    /\ disk[targetFile(p)].by = pkgName[p]
    /\ disk[targetFile(p)].data = src[file(p)].data

\* How many times handle h has been closed.
TimesClosed(p, h) == Cardinality({n \in 1..Len(closes[p]) : closes[p][n] = h})

\* C14: when helper returns, on any path, every handle it opened has been
\* closed exactly once and nothing else has been closed; an Install that
\* returns nil has opened a source and a target handle per match.
C14_HandlesReleased ==
  \A p \in Proc :
    pc[p] = "returned" =>
      /\ \A h \in opened[p] : TimesClosed(p, h) = 1
      /\ Len(closes[p]) = Cardinality(opened[p])
      /\ (op[p] = Install /\ err[p] = Nil)
           => Cardinality(opened[p]) = 2 * Len(files[p])

\* C14 witness: helper has returned an error from the second iteration of an
\* Install, with three handles opened.
C14_Witness ==
  \E p \in Proc :
    /\ pc[p] = "returned" /\ err[p] # Nil
    /\ Cardinality(opened[p]) = 3

\* The handles that are open.
OpenHandles(p) == opened[p] \ Range(closes[p])

\* C15 as claimed: at most one source handle and one target handle are open
\* at any time, and none is open when the next file is about to be opened.
C15_OneFileAtATime ==
  \A p \in Proc :
    /\ \A kind \in {"fin", "fout"} :
         Cardinality({h \in OpenHandles(p) : h.h = kind}) <= 1
    /\ pc[p] = "open" => OpenHandles(p) = {}

\* C16: helper acts on a match only if the entry itself is a regular file;
\* when the loop stops at a match that is none, the result is the
\* not-a-regular-file error naming that path and the operation (or the stat
\* error, when os.Lstat failed), and the target of the match is as it was;
\* a stat error names the match and leaves its target as it was.
C16_PerMatchClassification ==
  \A p \in Proc :
    /\ pc[p] \in {"remove", "open", "create", "copy", "sync"} =>
         src[file(p)].kind = "reg"
    /\ (/\ pc[p] = "returned" /\ op[p] \in {Install, Remove}
        /\ nfile[p] <= Len(files[p])
        /\ src[file(p)].kind # "reg")
         => /\ err[p] \in {Errorf("not a regular file", file(p), OpString(op[p])),
                           Errorf("unable to stat", file(p), "")}
            /\ ~faulted[p] => err[p].kind = "not a regular file"
            /\ Untouched(p, targetFile(p))
    /\ (pc[p] = "returned" /\ err[p].kind = "unable to stat")
         => /\ err[p] = Errorf("unable to stat", file(p), "")
            /\ Untouched(p, targetFile(p))

\* C16 witness: a Remove has stopped at a symbolic link to a regular file
\* with the not-a-regular-file error.
C16_Witness ==
  \E p \in Proc :
    /\ pc[p] = "returned" /\ op[p] = Remove
    /\ nfile[p] <= Len(files[p])
    /\ src[file(p)].kind = "symlink" /\ src[file(p)].to = "reg"
    /\ err[p].kind = "not a regular file"

\* C17: no step removes a directory; Remove removes files only in a target
\* directory that exists; and whenever FrameworkOp returns nil, whatever the
\* operation and the package, all four target directories exist.
C17_DirsOnlyAdded ==
  [][/\ dirs \subseteq dirs'
     /\ \A p \in Proc :
          /\ pc[p] = "remove" => targetDir(p) \in dirs
          /\ (pc'[p] = "done" /\ err'[p] = Nil)
               => \A c \in CombosIx : TargetDirOf(c) \in dirs']_vars

\* C17 witness: a Remove of a package that ships no policy file has returned
\* nil over a tree that had no directory.
C17_Witness ==
  \E p \in Proc :
    /\ pc[p] = "done" /\ op[p] = Remove /\ err[p] = Nil
    /\ pre[p].dirs = {}
    /\ \A c \in CombosIx : Matches(pkgName[p], c) = <<>>
    /\ \A c \in CombosIx : TargetDirOf(c) \in dirs

\* The file t of the shared tree differs between the two states of a step.
Changed(t) ==
  \/ ~(t \in DOMAIN disk <=> t \in DOMAIN disk')
  \/ t \in DOMAIN disk /\ t \in DOMAIN disk' /\ disk[t] # disk'[t]

\* C18: a step changes no source tree, and creates, modifies or deletes only
\* files <category>/<subcategory>/P_<basename> of the shared tree, for P the
\* package of a running call and basename that of a current match of P.
C18_Frame ==
  [][/\ src' = src
     /\ \A t \in DOMAIN disk \cup DOMAIN disk' :
          Changed(t) =>
            \E p \in Proc :
              /\ pc[p] # "idle"
              /\ \E c \in CombosIx : \E n \in 1..Len(Matches(pkgName[p], c)) :
                   t = ExpectedTarget(pkgName[p], c,
                                      Matches(pkgName[p], c)[n])]_vars

\* C18 witness: a Remove of one package has returned nil and a file that
\* another package installed is as it was.
C18_Witness ==
  \E p \in Proc :
    /\ pc[p] = "done" /\ op[p] = Remove /\ err[p] = Nil
    /\ DOMAIN pre[p].disk # DOMAIN disk
    /\ \E t \in DOMAIN disk : disk[t].by # pkgName[p] /\ Untouched(p, t)

\* C19: an Install over regular files returns nil when no system call fails,
\* whatever the targets held; when it returns nil every target holds exactly
\* the bytes of its source; and when it follows an Install of the same
\* package that returned nil, it leaves the shared tree as that one left it.
C19_InstallIdempotent ==
  \A p \in Proc :
    (pc[p] = "done" /\ op[p] = Install) =>
      /\ (~faulted[p] /\ AllRegular(pkgName[p])) => err[p] = Nil
      /\ err[p] = Nil =>
           \A c \in CombosIx : \A n \in 1..Len(Matches(pkgName[p], c)) :
             LET t == Target(pkgName[p], c, Matches(pkgName[p], c)[n])
             IN /\ t \in DOMAIN disk
                /\ disk[t].data = src[Matches(pkgName[p], c)[n]].data
      /\ (err[p] = Nil /\ last.op = Install /\ last.pkgName = pkgName[p])
           => disk = pre[p].disk /\ dirs = pre[p].dirs

\* C19 witness: an Install has returned nil over a target that held more
\* bytes than its source, and other ones.
C19_Witness ==
  \E p \in Proc :
    /\ pc[p] = "done" /\ op[p] = Install /\ err[p] = Nil
    /\ \E c \in CombosIx : \E n \in 1..Len(Matches(pkgName[p], c)) :
         LET t == Target(pkgName[p], c, Matches(pkgName[p], c)[n])
         IN /\ t \in DOMAIN pre[p].disk
            /\ Len(pre[p].disk[t].data) >
                 Len(src[Matches(pkgName[p], c)[n]].data)

\* C19 second witness state: the Install repeated right after itself.
C19_Repeated ==
  \E p \in Proc :
    /\ pc[p] = "done" /\ op[p] = Install /\ err[p] = Nil
    /\ last.op = Install /\ last.pkgName = pkgName[p]
    /\ disk # <<>>

\* ------------------------------------------- two invocations, no lock

\* helper as a function of the shared tree, when no system call fails for an
\* outside reason: the range loop from match n on.
RECURSIVE rangeRun(_, _, _, _, _, _)
rangeRun(o, name, c, ms, n, d) ==
  IF n > Len(ms) THEN [err |-> Nil, disk |-> d]
  ELSE LET f == ms[n]
           t == TargetFile(TargetDirOf(c), SuffixOf(name), f)
           r == AfterLstat(o, Lstat(src, f), f)
       IN CASE r.pc = "remove" ->
                 IF CanRemove(d, t)
                   THEN rangeRun(o, name, c, ms, n + 1, Unlinked(d, t))
                   ELSE [err |-> Errorf("unable to remove", t, ""), disk |-> d]
            [] r.pc = "open" ->
                 rangeRun(o, name, c, ms, n + 1,
                          [Created(d, t, name) EXCEPT ![t] =
                             Synced([@ EXCEPT !.data =
                                       Written(@, Copied(src[f].data))])])
            [] OTHER -> [err |-> r.err, disk |-> d]

\* One helper call run alone on the tree.
helperRun(o, name, c, tree) ==
  LET r == rangeRun(o, name, c, Matches(name, c), 1, tree.disk)
  IN [err |-> r.err,
      dirs |-> tree.dirs \cup Range(MkdirChain(TargetDirOf(c))),
      disk |-> r.disk]

\* FrameworkOp run alone on the tree, from combination c on.
RECURSIVE FrameworkOpRun(_, _, _, _)
FrameworkOpRun(o, name, c, tree) ==
  CHOOSE res \in
    {IF AfterHelper(r.err, c).pc = "done" THEN r
     ELSE FrameworkOpRun(o, name, c + 1, [dirs |-> r.dirs, disk |-> r.disk]) :
       r \in {helperRun(o, name, c, tree)}} : TRUE

\* The sequential model and the function agree.
RunAgrees ==
  \A p \in Proc :
    (pc[p] = "done" /\ ~faulted[p]) =>
      FrameworkOpRun(op[p], pkgName[p], 1, pre[p])
        = [err |-> err[p], dirs |-> dirs, disk |-> disk]

\* The targets of a package in a source tree.
AllTargets(tree, name) ==
  UNION {{ExpectedTarget(name, c, m) :
            m \in Range(Glob(GlobOf(InstPath(name), c), tree))} :
         c \in CombosIx}

TargetsDisjoint(tree) == AllTargets(tree, "a") \cap AllTargets(tree, "a_b") = {}

\* The package each of the two invocations is for.
PkgOf == [p \in Proc |-> IF p = 1 THEN "a" ELSE "a_b"]

\* Shared trees that earlier calls, run one at a time, have left.
StartTrees ==
  LET t1 == FrameworkOpRun(Install, "a", 1, NoTree)
      t2 == FrameworkOpRun(Install, "a_b", 1, NoTree)
      t12 == FrameworkOpRun(Install, "a_b", 1, [dirs |-> t1.dirs, disk |-> t1.disk])
  IN {NoTree} \cup {[dirs |-> t.dirs, disk |-> t.disk] : t \in {t1, t2, t12}}

\* Two FrameworkOp calls for two packages with disjoint targets have been
\* issued against the same shared tree.
InitConc ==
  /\ src \in {t \in SrcTrees : TargetsDisjoint(t)}
  /\ \E t \in StartTrees :
       /\ dirs = t.dirs
       /\ disk = t.disk
       /\ pre = [p \in Proc |-> t]
  /\ pc = [p \in Proc |-> "mkdir"]
  /\ op \in [Proc -> Ops]
  /\ pkgName = PkgOf
  /\ ij = [p \in Proc |-> 1]
  /\ files = [p \in Proc |-> <<>>]
  /\ nfile = [p \in Proc |-> 1]
  /\ defers = [p \in Proc |-> <<>>]
  /\ scopeErr = [p \in Proc |-> <<>>]
  /\ err = [p \in Proc |-> Nil]
  /\ faulted = [p \in Proc |-> FALSE]
  /\ last = NoCall
  /\ opened = [p \in Proc |-> {}]
  /\ closes = [p \in Proc |-> <<>>]

\* os.MkdirAll begins with a stat of the path: nothing to make when the
\* directory exists.
MkdirAllStat(p) ==
  /\ pc[p] = "mkdir"
  /\ pc' = [pc EXCEPT ![p] = IF targetDir(p) \in dirs THEN "glob"
                                                      ELSE "mkdirall"]
  /\ UNCHANGED <<src, fsVars, argVars, ij, files, nfile, defers, hVars,
                 scopeErr, err, pre, faulted, last>>

\* os.MkdirAll makes the outermost missing directory; it is done once it has
\* made the path itself.
Mkdir(p) ==
  /\ pc[p] = "mkdirall"
  /\ LET chain == MkdirChain(targetDir(p))
     IN \E n \in 1..Len(chain) :
          /\ chain[n] \notin dirs
          /\ \A m \in 1..(n - 1) : chain[m] \in dirs
          /\ dirs' = dirs \cup {chain[n]}
          /\ pc' = [pc EXCEPT ![p] = IF n = Len(chain) THEN "glob" ELSE @]
  /\ UNCHANGED <<src, disk, argVars, ij, files, nfile, defers, hVars,
                 scopeErr, err, pre, faulted, last>>

\* An os.MkdirAll that returns the error of a mkdir that found the directory.
OnExistError(p) ==
  /\ ReturnFrom(p, Errorf("unable to make directory", targetDir(p), ""))

\* What os.MkdirAll does when mkdir finds the directory made meanwhile: it
\* is a directory, so MkdirAll returns nil.
OnExist(p) ==
  /\ pc' = [pc EXCEPT ![p] = "glob"]
  /\ UNCHANGED err

\* The other invocation has made the directory since the stat.
MkdirExists(p) ==
  /\ pc[p] = "mkdirall"
  /\ targetDir(p) \in dirs
  /\ OnExist(p)
  /\ UNCHANGED <<src, fsVars, argVars, ij, files, nfile, defers, hVars,
                 scopeErr, pre, faulted, last>>

\* os.Remove of a target that does not exist.
RemoveMissing(p) ==
  /\ pc[p] = "remove"
  /\ ~CanRemove(disk, targetFile(p))
  /\ RemoveFail(p)

\* Both invocations run with no lock and no outside failure: any of the two
\* takes the next step.
NextConc ==
  \E p \in Proc :
    \/ MkdirAllStat(p)
    \/ Mkdir(p)
    \/ MkdirExists(p)
    \/ DoGlob(p)
    \/ RangeDone(p)
    \/ LstatOk(p)
    \/ RemoveOk(p)
    \/ RemoveMissing(p)
    \/ OpenOk(p)
    \/ CreateOk(p)
    \/ CopyOk(p)
    \/ SyncOk(p)
    \/ CloseOk(p)
    \/ HelperReturn(p)
    \/ FrameworkOpStep(p)

SpecConc == InitConc /\ [][NextConc]_vars

\* The results and the tree of invocation p, then q, run one after the other
\* on tree t.
OneAfterTheOther(p, q, t) ==
  LET r1 == FrameworkOpRun(op[p], pkgName[p], 1, t)
      r2 == FrameworkOpRun(op[q], pkgName[q], 1,
                           [dirs |-> r1.dirs, disk |-> r1.disk])
  IN [first |-> r1.err, second |-> r2.err, dirs |-> r2.dirs, disk |-> r2.disk]

\* C20: when two invocations for two packages with disjoint targets have run
\* with no lock and no outside failure, in whatever interleaving of their
\* steps, each has returned what it returns, and the shared tree is what it
\* is, when the two run one after the other, in either order.
C20_AsOneAfterTheOther ==
  ((\A p \in Proc : pc[p] = "done") /\ TargetsDisjoint(src)) =>
    \A p \in Proc : \A q \in Proc \ {p} :
      OneAfterTheOther(p, q, pre[p])
        = [first |-> err[p], second |-> err[q], dirs |-> dirs, disk |-> disk]

\* C20 witness: two Installs that started on an empty tree have both
\* returned, each having written a file, one of them stopped by an error.
C20_Witness ==
  /\ \A p \in Proc : pc[p] = "done" /\ op[p] = Install /\ pre[p] = NoTree
  /\ TargetsDisjoint(src)
  /\ \A p \in Proc : \E t \in DOMAIN disk : disk[t].by = pkgName[p]
  /\ err[1] # Nil /\ err[2] = Nil

\* Both invocations are in the middle of the same directory.
C20_Interleaved ==
  /\ pc[1] = "copy" /\ pc[2] = "copy" /\ ij[1] = ij[2]

====
